---- MODULE Spec2Model ----
(***************************************************************************)
(* Digital Library API (src/main.py): books, members and loans kept in a   *)
(* document store, with the two stateful handlers create_loan and          *)
(* return_book.  Every handler is split at its store operations, so that   *)
(* requests served concurrently interleave exactly where the code touches  *)
(* the store.  Spec allows any interleaving of the request slots; SeqSpec  *)
(* runs each request to completion before the next one starts.             *)
(***************************************************************************)
EXTENDS Integers, Sequences, FiniteSets, TLC

(* ---- bounds ---- *)
NumReq == 2
MaxBooks == 1
MaxMembers == 1
MaxLoans == 2
MaxCopies == 1
MaxTime == 1

Req == 1..NumReq
\* BookIn.copies_total is a plain int: negative totals pass validation
CopiesTotals == (0 - 1)..MaxCopies
Times == 1..MaxTime
NoDate == 0

(* ---- identifiers ---- *)
\* An ObjectId is a positive integer k.  An id string is <<"hex", k>> (the
\* lowercase hex form str() produces), <<"HEX", k>> (the same digits typed
\* in uppercase) or <<"bad", 0>> (not 24 hex digits).
NoStr == <<"none", 0>>
BadStr == <<"bad", 0>>
IdStrs(n) == {BadStr} \cup {<<c, k>> : c \in {"hex", "HEX"}, k \in 1..n}

str(oid) == <<"hex", oid>>
ObjectId(s) == s[2]
IsValidLowercase(s) == s[1] = "hex"
ObjectId_is_valid(s) == s[1] \in {"hex", "HEX"}

(* ---- email syntax ---- *)
Emails == { <<"a", "@", "b", ".", "c">>, <<"a", "@", "b">>, <<"a", "b">> }
At(e) == {i \in 1..Len(e) : e[i] = "@"}
\* schemas.Member.email: one "@", a local part, a dotted domain
EmailStr(e) ==
    /\ Cardinality(At(e)) = 1
    /\ LET a == CHOOSE i \in At(e) : TRUE
       IN  /\ a > 1
           /\ \E d \in (a + 2)..(Len(e) - 1) : e[d] = "."
\* main.MemberIn.email is declared str: every string passes
MemberIn_email(e) == TRUE

VARIABLES book, member, loan, pc, req, hist, returns
vars == <<book, member, loan, pc, req, hist, returns>>

(* ---- document store ---- *)
create_document(coll, data) == Append(coll, data)
inserted_id(coll) == str(Len(coll) + 1)
find_one(coll, oid) == IF oid \in 1..Len(coll) THEN {coll[oid]} ELSE {}
IncIfNonNegative(coll, oid, d) ==
    IF oid \in 1..Len(coll) /\ coll[oid].copies_available + d >= 0
    THEN [coll EXCEPT ![oid].copies_available = @ + d] ELSE coll
IncAlwaysDown(coll, oid, d) ==
    IF oid \in 1..Len(coll)
    THEN [coll EXCEPT ![oid].copies_available = @ - 1] ELSE coll
inc_copies_available(coll, oid, d) ==
    IF oid \in 1..Len(coll)
    THEN [coll EXCEPT ![oid].copies_available = @ + d] ELSE coll

\* _get_by_id: the error it raises, or "ok"
_get_by_id(coll, s) ==
    IF ~ObjectId_is_valid(s) THEN "400 Invalid id"
    ELSE IF find_one(coll, ObjectId(s)) = {} THEN "404 not found"
    ELSE "ok"

\* a request slot: the payload and the handler's local variables
NoReq == [book_id |-> NoStr, member_id |-> NoStr, loan_id |-> NoStr,
          oid |-> 0, snap |-> 0, ref |-> NoStr]
\* the request completed last: operation, payload, response; after_loan says
\* that it is the return of the loan the request completed just before created
NoHist == [op |-> "none", book_id |-> NoStr, member_id |-> NoStr,
           loan_id |-> NoStr, resp |-> "none", pre |-> 0, after_loan |-> FALSE]
Done(op, resp) == [NoHist EXCEPT !.op = op, !.resp = resp]

Init ==
    /\ book = <<>>
    /\ member = <<>>
    /\ loan = <<>>
    /\ pc = [r \in Req |-> "idle"]
    /\ req = [r \in Req |-> NoReq]
    /\ hist = NoHist
    /\ returns = <<>>

(* ---- POST /api/books ---- *)
BookDataDefault(total) == [copies_total |-> total, copies_available |-> 1]
BookData(total) == [copies_total |-> total, copies_available |-> total]

add_book(r, total) ==
    /\ pc[r] = "idle"
    /\ Len(book) < MaxBooks
    /\ book' = create_document(book, BookData(total))
    /\ hist' = Done("add_book", "200")
    /\ UNCHANGED <<member, loan, pc, req, returns>>

(* ---- POST /api/members ---- *)
add_member(r, email) ==
    /\ pc[r] = "idle"
    /\ Len(member) < MaxMembers
    /\ IF MemberIn_email(email)
       THEN /\ member' = create_document(member, [email |-> email])
            /\ hist' = Done("add_member", "200")
       ELSE /\ member' = member
            /\ hist' = Done("add_member", "422")
    /\ UNCHANGED <<book, loan, pc, req, returns>>

(* ---- POST /api/loans ---- *)
NoCopiesBelowZero(avail) == avail < 0
NoCopies(avail) == avail <= 0

InFlightLoans == Cardinality({q \in Req : pc[q] \in {"cl_member", "cl_insert"}})

create_loan_get_book(r, book_id, member_id) ==
    /\ pc[r] = "idle"
    /\ Len(loan) + InFlightLoans < MaxLoans
    /\ LET got == _get_by_id(book, book_id)
           fail(resp) == [Done("create_loan", resp) EXCEPT
                             !.book_id = book_id, !.member_id = member_id]
       IN  IF got # "ok"
           THEN /\ hist' = fail(got)
                /\ UNCHANGED <<pc, req>>
           ELSE LET b == book[ObjectId(book_id)]
                IN  IF NoCopies(b.copies_available)
                    THEN /\ hist' = fail("400 No copies available")
                         /\ UNCHANGED <<pc, req>>
                    ELSE /\ req' = [req EXCEPT ![r] =
                                [NoReq EXCEPT !.book_id = book_id,
                                              !.member_id = member_id,
                                              !.oid = ObjectId(book_id),
                                              !.snap = b.copies_available]]
                         /\ pc' = [pc EXCEPT ![r] = "cl_member"]
                         /\ hist' = hist
    /\ UNCHANGED <<book, member, loan, returns>>

create_loan_get_member(r) ==
    /\ pc[r] = "cl_member"
    /\ LET got == _get_by_id(member, req[r].member_id)
       IN  IF got # "ok"
           THEN /\ hist' = [Done("create_loan", got) EXCEPT
                               !.book_id = req[r].book_id,
                               !.member_id = req[r].member_id]
                /\ req' = [req EXCEPT ![r] = NoReq]
                /\ pc' = [pc EXCEPT ![r] = "idle"]
           ELSE /\ pc' = [pc EXCEPT ![r] = "cl_insert"]
                /\ UNCHANGED <<req, hist>>
    /\ UNCHANGED <<book, member, loan, returns>>

LoanDataOverdue(book_id, member_id) ==
    [book_id |-> book_id, member_id |-> member_id, status |-> "overdue",
     return_date |-> NoDate]
loan_data(book_id, member_id) ==
    [book_id |-> book_id, member_id |-> member_id, status |-> "borrowed",
     return_date |-> NoDate]

create_loan_insert(r) ==
    /\ pc[r] = "cl_insert"
    /\ loan' = create_document(loan, loan_data(req[r].book_id, req[r].member_id))
    /\ returns' = Append(returns, 0)
    /\ req' = [req EXCEPT ![r].loan_id = inserted_id(loan)]
    /\ pc' = [pc EXCEPT ![r] = "cl_dec"]
    /\ UNCHANGED <<book, member, hist>>

create_loan_decrement(r) ==
    /\ pc[r] = "cl_dec"
    /\ book' = inc_copies_available(book, req[r].oid, 0 - 1)
    /\ hist' = [Done("create_loan", "200") EXCEPT
                   !.book_id = req[r].book_id, !.member_id = req[r].member_id,
                   !.loan_id = req[r].loan_id, !.pre = req[r].snap]
    /\ req' = [req EXCEPT ![r] = NoReq]
    /\ pc' = [pc EXCEPT ![r] = "idle"]
    /\ UNCHANGED <<member, loan, returns>>

(* ---- POST /api/loans/{loan_id}/return ---- *)
NeverReturned(l) == FALSE
AlreadyReturned(l) == l.status = "returned"

return_book_get_loan(r, loan_id) ==
    /\ pc[r] = "idle"
    /\ LET got == _get_by_id(loan, loan_id)
           fail(resp) == [Done("return_book", resp) EXCEPT !.loan_id = loan_id]
       IN  IF got # "ok"
           THEN /\ hist' = fail(got)
                /\ UNCHANGED <<pc, req>>
           ELSE LET l == loan[ObjectId(loan_id)]
                IN  IF AlreadyReturned(l)
                    THEN /\ hist' = fail("400 Already returned")
                         /\ UNCHANGED <<pc, req>>
                    ELSE /\ req' = [req EXCEPT ![r] =
                                [NoReq EXCEPT !.loan_id = loan_id,
                                              !.oid = ObjectId(loan_id),
                                              !.ref = l.book_id]]
                         /\ pc' = [pc EXCEPT ![r] = "rb_mark"]
                         /\ hist' = hist
    /\ UNCHANGED <<book, member, loan, returns>>

SetStatusOnly(coll, oid, now) ==
    IF oid \in 1..Len(coll)
    THEN [coll EXCEPT ![oid].status = "returned"] ELSE coll
set_returned(coll, oid, now) ==
    IF oid \in 1..Len(coll)
    THEN [coll EXCEPT ![oid].status = "returned", ![oid].return_date = now]
    ELSE coll

return_book_mark(r) ==
    /\ pc[r] = "rb_mark"
    /\ \E now \in Times : loan' = set_returned(loan, req[r].oid, now)
    /\ pc' = [pc EXCEPT ![r] = "rb_inc"]
    /\ UNCHANGED <<book, member, req, hist, returns>>

IncrementBookLowercase(coll, book_id) ==
    IF IsValidLowercase(book_id)
    THEN inc_copies_available(coll, ObjectId(book_id), 1) ELSE coll
increment_book(coll, book_id) ==
    IF ObjectId_is_valid(book_id)
    THEN inc_copies_available(coll, ObjectId(book_id), 1) ELSE coll

return_book_increment(r) ==
    /\ pc[r] = "rb_inc"
    /\ book' = increment_book(book, req[r].ref)
    /\ returns' = [returns EXCEPT ![req[r].oid] = @ + 1]
    /\ LET follows == /\ hist.op = "create_loan"
                      /\ hist.resp = "200"
                      /\ ObjectId(hist.loan_id) = req[r].oid
       IN  hist' = [Done("return_book", "200") EXCEPT
                       !.loan_id = req[r].loan_id,
                       !.after_loan = follows,
                       !.pre = IF follows THEN hist.pre ELSE 0]
    /\ req' = [req EXCEPT ![r] = NoReq]
    /\ pc' = [pc EXCEPT ![r] = "idle"]
    /\ UNCHANGED <<member, loan>>

(* ---- GET /api/loans ---- *)
list_loans(status) == {i \in 1..Len(loan) : loan[i].status = status}

(* ---- specifications ---- *)
Step(r) ==
    \/ \E total \in CopiesTotals : add_book(r, total)
    \/ \E email \in Emails : add_member(r, email)
    \/ \E b \in IdStrs(MaxBooks), m \in IdStrs(MaxMembers) :
           create_loan_get_book(r, b, m)
    \/ create_loan_get_member(r)
    \/ create_loan_insert(r)
    \/ create_loan_decrement(r)
    \/ \E l \in IdStrs(MaxLoans) : return_book_get_loan(r, l)
    \/ return_book_mark(r)
    \/ return_book_increment(r)

Next == \E r \in Req : Step(r)
Spec == Init /\ [][Next]_vars

Quiescent == \A r \in Req : pc[r] = "idle"
\* every other request has run to completion
Alone(r) == \A q \in Req \ {r} : pc[q] = "idle"
SeqNext ==
    \E r \in Req :
        \/ \E total \in CopiesTotals : Alone(r) /\ add_book(r, total)
        \/ \E email \in Emails : Alone(r) /\ add_member(r, email)
        \/ \E b \in IdStrs(MaxBooks), m \in IdStrs(MaxMembers) :
               Alone(r) /\ create_loan_get_book(r, b, m)
        \/ Alone(r) /\ create_loan_get_member(r)
        \/ Alone(r) /\ create_loan_insert(r)
        \/ Alone(r) /\ create_loan_decrement(r)
        \/ \E l \in IdStrs(MaxLoans) : Alone(r) /\ return_book_get_loan(r, l)
        \/ Alone(r) /\ return_book_mark(r)
        \/ Alone(r) /\ return_book_increment(r)
SeqSpec == Init /\ [][SeqNext]_vars

TypeOK ==
    /\ \A i \in 1..Len(book) : book[i].copies_total \in CopiesTotals
    /\ \A i \in 1..Len(member) : member[i].email \in Emails
    /\ Len(loan) <= MaxLoans

(* ---- properties ---- *)
Books == 1..Len(book)
Loans == 1..Len(loan)
LoansOf(b) == {l \in Loans : ObjectId(loan[l].book_id) = b}
Borrowed(b) == {l \in LoansOf(b) : loan[l].status = "borrowed"}

\* C1: when requests do not overlap, after any sequence of requests every
\* book created with copies_total >= 0 has 0 <= copies_available <=
\* copies_total.
C1_CopiesInRange ==
    Quiescent =>
        \A b \in Books :
            book[b].copies_total >= 0 =>
                /\ 0 <= book[b].copies_available
                /\ book[b].copies_available <= book[b].copies_total
C1_Witness ==
    /\ Quiescent
    /\ \E b \in Books :
           /\ book[b].copies_total = 1
           /\ book[b].copies_available = 0
           /\ Borrowed(b) # {}
           /\ LoansOf(b) \ Borrowed(b) # {}

\* C2: create_loan decrements once for every loan it inserts, without looking
\* at the counter again: as long as no loan of a book has been returned,
\* copies_available = copies_total - (loans of the book) + (requests that
\* inserted their loan and have not decremented yet), below zero as well.
\* Two overlapping requests on a book with one copy left therefore end with
\* copies_available = -1 and two borrowed loans (C2_Witness).
PendingDecrements(b) == {r \in Req : pc[r] = "cl_dec" /\ req[r].oid = b}
C2_UnconditionalDecrement ==
    \A b \in Books :
        Borrowed(b) = LoansOf(b) =>
            book[b].copies_available =
                book[b].copies_total - Cardinality(LoansOf(b))
                    + Cardinality(PendingDecrements(b))
C2_Witness ==
    /\ Quiescent
    /\ \E b \in Books :
           /\ book[b].copies_total = 1
           /\ book[b].copies_available = 0 - 1
           /\ Cardinality(Borrowed(b)) = 2

\* C3: when requests do not overlap and none is in progress, each book's
\* copies_available is its copies_total minus the number of its loans with
\* status borrowed (a new book has no loan: copies_available = copies_total).
C3_AvailableCountsUnloaned ==
    Quiescent =>
        \A b \in Books :
            book[b].copies_available =
                book[b].copies_total - Cardinality(Borrowed(b))
C3_Witness ==
    /\ Quiescent
    /\ \E b \in Books :
           /\ \E l \in Borrowed(b) : loan[l].book_id = <<"HEX", b>>
           /\ \E l \in LoansOf(b) : loan[l].status = "returned"
           /\ book[b].copies_available = book[b].copies_total - 1

\* C4: when a successful create_loan is followed immediately by a successful
\* return of the loan it created, the book's copies_available is back at the
\* value create_loan read, and the loan's status is returned.
LoanThenReturn ==
    /\ Quiescent
    /\ hist.op = "return_book"
    /\ hist.resp = "200"
    /\ hist.after_loan
C4_LoanThenReturnRestores ==
    LoanThenReturn =>
        LET l == ObjectId(hist.loan_id)
        IN  /\ loan[l].status = "returned"
            /\ book[ObjectId(loan[l].book_id)].copies_available = hist.pre
C4_Witness ==
    /\ LoanThenReturn
    /\ hist.pre = 1
    /\ Len(loan) = 2

\* C5: a create_loan request that finds the book with copies_available <= 0
\* ends there with 400 "No copies available", whatever its member_id is,
\* and writes nothing: no loan is inserted and no book changes.
C5_NoCopiesFails ==
    [][\A r \in Req, b \in IdStrs(MaxBooks), m \in IdStrs(MaxMembers) :
          ( /\ create_loan_get_book(r, b, m)
            /\ _get_by_id(book, b) = "ok"
            /\ book[ObjectId(b)].copies_available <= 0 )
          => /\ hist'.op = "create_loan"
             /\ hist'.resp = "400 No copies available"
             /\ hist'.member_id = m
             /\ pc' = pc
             /\ loan' = loan
             /\ book' = book]_vars
C5_Witness ==
    /\ hist.op = "create_loan"
    /\ hist.resp = "400 No copies available"
    /\ hist.member_id = BadStr
    /\ book[ObjectId(hist.book_id)].copies_total = 1

\* C6: a return_book request on a loan that an earlier request has already
\* returned ends with 400 "Already returned" and changes neither the loan
\* records nor any book.
C6_SecondReturnFails ==
    [][\A r \in Req, l \in IdStrs(MaxLoans) :
          ( /\ return_book_get_loan(r, l)
            /\ _get_by_id(loan, l) = "ok"
            /\ returns[ObjectId(l)] >= 1 )
          => /\ hist'.op = "return_book"
             /\ hist'.resp = "400 Already returned"
             /\ pc' = pc
             /\ loan' = loan
             /\ book' = book]_vars
C6_Witness ==
    /\ hist.op = "return_book"
    /\ hist.resp = "400 Already returned"
    /\ returns[ObjectId(hist.loan_id)] = 1
    /\ Quiescent

\* C7: under any interleaving every loan's status is borrowed or returned; a
\* loan is inserted as borrowed, the only change is borrowed -> returned, a
\* returned loan stays returned, and no loan is ever overdue.
C7_StatusLifecycle ==
    /\ [](\A l \in Loans : loan[l].status \in {"borrowed", "returned"})
    /\ [][\A l \in 1..Len(loan') :
             IF l \in Loans
             THEN \/ loan'[l].status = loan[l].status
                  \/ loan[l].status = "borrowed" /\ loan'[l].status = "returned"
             ELSE loan'[l].status = "borrowed"]_vars
C7_Witness ==
    /\ \E l \in Loans : loan[l].status = "returned"
    /\ \E l \in Loans : loan[l].status = "borrowed"
    /\ \E r \in Req : pc[r] = "rb_mark"

\* C8: under any interleaving every loan that list_loans(status=returned)
\* returns has its return_date set.
C8_ReturnedHasDate ==
    \A l \in list_loans("returned") : loan[l].return_date # NoDate
C8_Witness ==
    /\ list_loans("returned") # {}
    /\ \E r \in Req : pc[r] = "rb_inc"

\* C9: add_member rejects an email that is not a syntactically valid address
\* with 422, so every stored member has a valid email.
C9_MembersHaveValidEmail ==
    \A i \in 1..Len(member) : EmailStr(member[i].email)

\* C10: under any interleaving at most one return_book request succeeds for a
\* loan, so the book's copies_available is incremented at most once per loan.
C10_ReturnedAtMostOnce ==
    \A l \in Loans : returns[l] <= 1
====
